---- MODULE Spec2Model ----
(***************************************************************************)
(* The jar balance ledger of FinAi (src/App.tsx): six jar balances, the    *)
(* transaction list, loans, event groups and future groups, and the        *)
(* handlers that change them.                                              *)
(*                                                                         *)
(* Numbers.  The program computes on JavaScript numbers; the model uses    *)
(* exact fixed-point arithmetic.  One unit of base currency is Scale model *)
(* units, so that 0.01 (the over-payment epsilon) and every product        *)
(* amount * ratio (ratios are multiples of 1/20) are integers.  Rounding   *)
(* of binary floating point is modelled for the balance engine alone       *)
(* (Spec64), where sums and products are IEEE-754 binary64 results.        *)
(*                                                                         *)
(* Session.  Sign-in, sign-out, the load of the user's document and the    *)
(* delayed save are the actions of SpecCloud; the text input answered by   *)
(* the language model is in SpecAI.                                        *)
(*                                                                         *)
(* Identifiers.  The program builds ids from Date.now(); the model keeps   *)
(* a clock `now` that advances between two handler calls, and an id        *)
(* is the tuple <<prefix, n, idx, m>> of the pieces the code concatenates. *)
(***************************************************************************)
EXTENDS Integers, Sequences, FiniteSets, TLC

\* ---------------------------------------------------------------- bounds
MaxSteps == 3
MaxBatch == 1
\* the session is followed for MaxTicks clock steps and MaxSessions sign-ins
MaxTicks == 3
MaxSessions == 2

\* ------------------------------------------------------------- constants
JarType == {"NEC", "LTS", "EDU", "PLAY", "FFA", "GIVE"}

\* jarType: undefined on a transaction, 'AUTO' in the forms
AUTO == "AUTO"

\* an optional id field that is not set (loanId, transferGroupId)
NoId == <<"undefined", 0, 0, 0>>

\* a null Transaction argument of updateBalances
Null == [null |-> TRUE]

\* the jar ratios are RatioNum[j] / RatioDen
RatioDen == 20

defaultRatios ==
    [j \in JarType |->
        CASE j = "NEC" -> 11
          [] j = "GIVE" -> 1
          [] OTHER -> 2]

\* model units per unit of base currency: 0.01 and x * ratio stay integral
Scale == 100 * RatioDen

\* the 0.01 of handlePaymentSubmit
Epsilon == Scale \div 100

\* Date.now() + 1 is the id of the second transaction of a transfer, so two
\* handler calls are at least two clock units apart
ClockStep == 2

\* ---------------------------------------------------------------- inputs
\* the jars chosen in the transfer form (every jar keeps its balance)
TransferJars == {"NEC", "LTS"}

\* the jar chosen in the entry, loan and commit forms: one jar, or AUTO
JarChoices == {"NEC", AUTO}

TxTypes == {"income", "expense"}

LoanTypes == {"BORROW", "LEND"}

\* parseFormattedNumber of a positive amount field
Amounts == {1 * Scale, 2 * Scale}

\* parseFormattedNumber of an amount field holding digits: "0" gives 0
AmountsOrZero == {0} \cup Amounts

VARIABLES balances, transactions, loans, recurringTemplates, events, futureGroups,
          toast, lastAlert, now, engine

\* the text-input request of handleProcessInput, the session (auth listener,
\* load and save effects) and the document store.  lastSetDoc is the last
\* call of setDoc; session is a record kept for the properties: the number of
\* sign-ins so far, the user of the latest and of the one before, whether the
\* load of the latest has completed or failed, and whether a handler has
\* changed the ledger since
VARIABLES isLoading, currentUser, isCloudLoaded, isAuthModalOpen,
          isAppInitialLoading, last_auth_time, signOutPending, pendingLoads,
          timeoutId, users_data, lastSetDoc, session

outside == <<isLoading, currentUser, isCloudLoaded, isAuthModalOpen,
            isAppInitialLoading, last_auth_time, signOutPending, pendingLoads,
            timeoutId, users_data, lastSetDoc, session>>

vars == <<balances, transactions, loans, recurringTemplates, events, futureGroups,
         toast, lastAlert, now, engine, outside>>

\* --------------------------------------------------------------- helpers
PlainId(n) == <<"", n, 0, 0>>

PayId(n) == <<"pay_", n, 0, 0>>

TransferGroupId(n) == <<"trf_", n, 0, 0>>

EvMainId(eventId) == <<"ev_main_", eventId[2], 0, 0>>

FutRealId(futureId, idx, n) == <<"fut_real_", futureId[2], idx, n>>

Transaction(id, type, amount, jarType, loanId, transferGroupId) ==
    [id |-> id, type |-> type, amount |-> amount, jarType |-> jarType,
     loanId |-> loanId, transferGroupId |-> transferGroupId]

RECURSIVE SeqSum(_)
SeqSum(s) == IF s = <<>> THEN 0 ELSE Head(s) + SeqSum(Tail(s))

SeqMap(f(_), s) == [i \in 1..Len(s) |-> f(s[i])]

\* Array.prototype.find: the first element that satisfies the test, or Null
Find(s, Test(_)) ==
    IF \E i \in 1..Len(s) : Test(s[i])
    THEN s[CHOOSE i \in 1..Len(s) : Test(s[i]) /\ \A k \in 1..(i - 1) : ~Test(s[k])]
    ELSE Null

Ids(s) == {s[i].id : i \in 1..Len(s)}

\* ---------------------------------------------------------- balance engine
\* nb[jar] += amount * factor, or nb[type] += amount * ratios[type] * factor
\* on every jar when the transaction has no jarType
AddEffect(nb, trans, factor) ==
    IF trans.jarType # AUTO
    THEN [nb EXCEPT ![trans.jarType] = @ + trans.amount * factor]
    ELSE [j \in JarType |->
            nb[j] + ((trans.amount * defaultRatios[j]) \div RatioDen) * factor]

\* mutant: the reversal of prevTrans uses the sign of an application
updateBalances_ReverseNotNegated(prevBalances, prevTrans, nextTrans) ==
    LET afterPrev ==
            IF prevTrans # Null
            THEN AddEffect(prevBalances, prevTrans,
                           IF prevTrans.type = "income" THEN 1 ELSE -1)
            ELSE prevBalances
    IN  IF nextTrans # Null
        THEN AddEffect(afterPrev, nextTrans,
                       IF nextTrans.type = "income" THEN 1 ELSE -1)
        ELSE afterPrev

updateBalances(prevBalances, prevTrans, nextTrans) ==
    LET afterPrev ==
            IF prevTrans # Null
            THEN AddEffect(prevBalances, prevTrans,
                           IF prevTrans.type = "income" THEN -1 ELSE 1)
            ELSE prevBalances
    IN  IF nextTrans # Null
        THEN AddEffect(afterPrev, nextTrans,
                       IF nextTrans.type = "income" THEN 1 ELSE -1)
        ELSE afterPrev

\* forEach(tx => updateBalances(tx, null)) over a list of transactions
RECURSIVE ReverseAll(_, _)
ReverseAll(nb, txs) ==
    IF txs = <<>> THEN nb
    ELSE ReverseAll(updateBalances(nb, Head(txs), Null), Tail(txs))

\* forEach(tx => updateBalances(null, tx)) over a list of transactions
RECURSIVE ApplyAll(_, _)
ApplyAll(nb, txs) ==
    IF txs = <<>> THEN nb
    ELSE ApplyAll(updateBalances(nb, Null, Head(txs)), Tail(txs))

ZeroBalances == [j \in JarType |-> 0]

\* ------------------------------------------------- session and persistence
\* the accounts of the auth provider: A and B have a verified e-mail address,
\* U has not
Users == {"A", "B"}

FirebaseUsers == Users \cup {"U"}

emailVerified(firebaseUser) == firebaseUser \in Users

\* 30 days, in clock units: longer than any run followed here
SESSION_TIMEOUT == 1000 * ClockStep

\* the 3000 ms of the save timer, in clock units
SaveDelay == 2 * ClockStep

\* currentUser is null
NoUser == "null"

\* docSnap.exists() is false
NoDoc == [exists |-> FALSE]

\* the state blob: the fields loadFromCloud reads and the save timer writes
\* (settings and the avatar are not modelled)
SnapshotFields ==
    {"balances", "transactions", "loans", "recurringTemplates", "events", "futureGroups"}

Snapshot ==
    [balances |-> balances, transactions |-> transactions, loans |-> loans,
     recurringTemplates |-> recurringTemplates, events |-> events,
     futureGroups |-> futureGroups]

\* the useState initial values
DefaultSnapshot ==
    [balances |-> ZeroBalances, transactions |-> <<>>, loans |-> <<>>,
     recurringTemplates |-> <<>>, events |-> <<>>, futureGroups |-> <<>>]

\* a session that is signed in as A, loaded, with no request or timer pending
\* and nothing stored: the state the ledger handlers are studied in
SignedInAndLoaded ==
    /\ isLoading = FALSE
    /\ currentUser = "A"
    /\ isCloudLoaded = TRUE
    /\ isAuthModalOpen = FALSE
    /\ isAppInitialLoading = FALSE
    /\ last_auth_time = <<0>>
    /\ signOutPending = FALSE
    /\ pendingLoads = {}
    /\ timeoutId = Null
    /\ users_data = [u \in Users |-> NoDoc]
    /\ lastSetDoc = Null
    /\ session = [n |-> 1, previous |-> NoUser, user |-> "A", loaded |-> TRUE, failed |-> FALSE,
                  mutated |-> FALSE]

\* a document of the store: the fields it holds and their values
Doc(fields, data) == [exists |-> TRUE, fields |-> fields, data |-> data]

\* JSON.parse(JSON.stringify(data, undefined -> null)): an unset jarType,
\* loanId or transferGroupId is stored as null; the handlers test these fields
\* for truthiness or compare them with an id, and the model has one value
\* (AUTO, NoId) for both undefined and null
sanitizeData(data) == data

\* if (data.f) setF(data.f), for every field f, on the state snap
LoadedInto(snap, doc) ==
    IF ~doc.exists THEN snap
    ELSE [f \in SnapshotFields |-> IF f \in doc.fields THEN doc.data[f] ELSE snap[f]]

Init ==
    /\ balances = ZeroBalances
    /\ transactions = <<>>
    /\ loans = <<>>
    /\ recurringTemplates = <<>>
    /\ events = <<>>
    /\ futureGroups = <<>>
    /\ toast = "none"
    /\ lastAlert = "none"
    /\ now = 0
    /\ engine = [pc |-> "idle"]
    /\ SignedInAndLoaded

\* the handler calls explored: the clock advances between any two of them
CanStep == now < ClockStep * MaxSteps

Tick == now' = now + ClockStep

\* ------------------------------------------------- transactions (history)
\* mutant: an edit applies the new transaction without reversing the old one
ManualSubmitResult_EditKeepsOld(bal, txs, editingTransactionId, manualType, amountInVnd, manualJar, stamp) ==
    LET newTrans ==
            Transaction(IF editingTransactionId # NoId
                        THEN editingTransactionId ELSE PlainId(stamp),
                        manualType, amountInVnd, manualJar, NoId, NoId)
    IN  IF editingTransactionId # NoId
        THEN [transactions |->
                 SeqMap(LAMBDA item :
                            IF item.id = editingTransactionId THEN newTrans ELSE item,
                        txs),
              balances |-> updateBalances(bal, Null, newTrans)]
        ELSE [transactions |-> <<newTrans>> \o txs,
              balances |-> updateBalances(bal, Null, newTrans)]

\* handleManualSubmit past its validation: the new list and the new balances
ManualSubmitResult(bal, txs, editingTransactionId, manualType, amountInVnd, manualJar, stamp) ==
    LET newTrans ==
            Transaction(IF editingTransactionId # NoId
                        THEN editingTransactionId ELSE PlainId(stamp),
                        manualType, amountInVnd, manualJar, NoId, NoId)
    IN  IF editingTransactionId # NoId
        THEN LET old == Find(txs, LAMBDA item : item.id = editingTransactionId)
             IN  [transactions |->
                     SeqMap(LAMBDA item :
                                IF item.id = editingTransactionId THEN newTrans ELSE item,
                            txs),
                  balances |-> updateBalances(bal, old, newTrans)]
        ELSE [transactions |-> <<newTrans>> \o txs,
              balances |-> updateBalances(bal, Null, newTrans)]

\* the form is submitted with a positive amount and a description
handleManualSubmit(editingTransactionId, manualType, amountInVnd, manualJar) ==
    IF amountInVnd <= 0
    THEN UNCHANGED <<balances, transactions, loans, recurringTemplates, events, futureGroups,
                    toast, lastAlert>>
    ELSE /\ LET r == ManualSubmitResult(balances, transactions, editingTransactionId,
                                        manualType, amountInVnd, manualJar, now)
            IN  /\ transactions' = r.transactions
                /\ balances' = r.balances
         /\ toast' = "history_detail_title OK"
         /\ lastAlert' = "none"
         /\ UNCHANGED <<recurringTemplates, loans, events, futureGroups>>

\* mutant: a delete of an id the ledger does not hold empties the ledger
DeleteTransactionResult_MissingClears(bal, txs, id) ==
    LET tx == Find(txs, LAMBDA t : t.id = id)
    IN  IF tx # Null
        THEN IF tx.transferGroupId # NoId
             THEN LET group == SelectSeq(txs, LAMBDA t : t.transferGroupId = tx.transferGroupId)
                  IN  [transactions |->
                          SelectSeq(txs, LAMBDA t : t.transferGroupId # tx.transferGroupId),
                       balances |-> ReverseAll(bal, group)]
             ELSE [transactions |-> SelectSeq(txs, LAMBDA t : t.id # id),
                   balances |-> updateBalances(bal, tx, Null)]
        ELSE [transactions |-> <<>>, balances |-> bal]

DeleteTransactionResult(bal, txs, id) ==
    LET tx == Find(txs, LAMBDA t : t.id = id)
    IN  IF tx # Null
        THEN IF tx.transferGroupId # NoId
             THEN LET group == SelectSeq(txs, LAMBDA t : t.transferGroupId = tx.transferGroupId)
                  IN  [transactions |->
                          SelectSeq(txs, LAMBDA t : t.transferGroupId # tx.transferGroupId),
                       balances |-> ReverseAll(bal, group)]
             ELSE [transactions |-> SelectSeq(txs, LAMBDA t : t.id # id),
                   balances |-> updateBalances(bal, tx, Null)]
        ELSE [transactions |-> txs, balances |-> bal]

DeleteLoanResult(bal, txs, lns, loanId) ==
    LET loan == Find(lns, LAMBDA l : l.id = loanId)
    IN  IF loan = Null
        THEN [transactions |-> txs, balances |-> bal, loans |-> lns]
        ELSE LET initialImpactTx ==
                     Transaction(<<"rev_init_", loan.id[2], 0, 0>>,
                                 IF loan.type = "BORROW" THEN "income" ELSE "expense",
                                 loan.principal, loan.loanJar, NoId, NoId)
                 associatedTxs == SelectSeq(txs, LAMBDA tx : tx.loanId = loanId)
             IN  [transactions |-> SelectSeq(txs, LAMBDA tx : tx.loanId # loanId),
                  balances |->
                      ReverseAll(updateBalances(bal, initialImpactTx, Null), associatedTxs),
                  loans |-> SelectSeq(lns, LAMBDA l : l.id # loanId)]

\* the third click on a delete button: the id decides what is deleted
handleTripleDelete(id) ==
    /\ IF id \in Ids(events)
       THEN /\ events' = SelectSeq(events, LAMBDA e : e.id # id)
            /\ UNCHANGED <<recurringTemplates, balances, transactions, loans, futureGroups>>
       ELSE IF id \in Ids(futureGroups)
       THEN /\ futureGroups' = SelectSeq(futureGroups, LAMBDA f : f.id # id)
            /\ UNCHANGED <<recurringTemplates, balances, transactions, loans, events>>
       ELSE IF id \in Ids(loans)
       THEN /\ LET r == DeleteLoanResult(balances, transactions, loans, id)
               IN  /\ balances' = r.balances
                   /\ transactions' = r.transactions
                   /\ loans' = r.loans
            /\ UNCHANGED <<recurringTemplates, events, futureGroups>>
       ELSE /\ LET r == DeleteTransactionResult(balances, transactions, id)
               IN  /\ balances' = r.balances
                   /\ transactions' = r.transactions
            /\ UNCHANGED <<recurringTemplates, loans, events, futureGroups>>
    /\ toast' = "Removed"
    /\ lastAlert' = "none"

\* ---------------------------------------------------------------- transfer
\* mutant: the destination jar is not credited
handleTransferSubmit_NoCredit(transferFrom, transferTo, amountInVnd) ==
    /\ lastAlert' = "none"
    /\ IF amountInVnd <= 0 \/ amountInVnd > balances[transferFrom]
       THEN /\ toast' = "Balance error"
            /\ UNCHANGED <<recurringTemplates, balances, transactions, loans, events, futureGroups>>
       ELSE IF transferFrom = transferTo
       THEN /\ toast' = "Same jar"
            /\ UNCHANGED <<recurringTemplates, balances, transactions, loans, events, futureGroups>>
       ELSE /\ LET transferId == TransferGroupId(now)
                   tx1 == Transaction(PlainId(now), "expense", amountInVnd,
                                      transferFrom, NoId, transferId)
                   tx2 == Transaction(PlainId(now + 1), "income", amountInVnd,
                                      transferTo, NoId, transferId)
               IN  /\ balances' = [balances EXCEPT ![transferFrom] = @ - amountInVnd]
                   /\ transactions' = <<tx1, tx2>> \o transactions
            /\ toast' = "Transfer OK"
            /\ UNCHANGED <<recurringTemplates, loans, events, futureGroups>>

\* mutant: a transfer from a jar to itself is carried out
handleTransferSubmit_NoSameJarCheck(transferFrom, transferTo, amountInVnd) ==
    /\ lastAlert' = "none"
    /\ IF amountInVnd <= 0 \/ amountInVnd > balances[transferFrom]
       THEN /\ toast' = "Balance error"
            /\ UNCHANGED <<recurringTemplates, balances, transactions, loans, events, futureGroups>>
       ELSE /\ LET transferId == TransferGroupId(now)
                   tx1 == Transaction(PlainId(now), "expense", amountInVnd,
                                      transferFrom, NoId, transferId)
                   tx2 == Transaction(PlainId(now + 1), "income", amountInVnd,
                                      transferTo, NoId, transferId)
               IN  /\ balances' = [balances EXCEPT ![transferFrom] = @ - amountInVnd,
                                                   ![transferTo] = @ + amountInVnd]
                   /\ transactions' = <<tx1, tx2>> \o transactions
            /\ toast' = "Transfer OK"
            /\ UNCHANGED <<recurringTemplates, loans, events, futureGroups>>

handleTransferSubmit(transferFrom, transferTo, amountInVnd) ==
    /\ lastAlert' = "none"
    /\ IF amountInVnd <= 0 \/ amountInVnd > balances[transferFrom]
       THEN /\ toast' = "Balance error"
            /\ UNCHANGED <<recurringTemplates, balances, transactions, loans, events, futureGroups>>
       ELSE IF transferFrom = transferTo
       THEN /\ toast' = "Same jar"
            /\ UNCHANGED <<recurringTemplates, balances, transactions, loans, events, futureGroups>>
       ELSE /\ LET transferId == TransferGroupId(now)
                   tx1 == Transaction(PlainId(now), "expense", amountInVnd,
                                      transferFrom, NoId, transferId)
                   tx2 == Transaction(PlainId(now + 1), "income", amountInVnd,
                                      transferTo, NoId, transferId)
               IN  /\ balances' = [balances EXCEPT ![transferFrom] = @ - amountInVnd,
                                                   ![transferTo] = @ + amountInVnd]
                   /\ transactions' = <<tx1, tx2>> \o transactions
            /\ toast' = "Transfer OK"
            /\ UNCHANGED <<recurringTemplates, loans, events, futureGroups>>

\* ------------------------------------------------------------ batch import
\* what importTransactionsAI returns, after the defaults of the map: a tagged
\* expense, an untagged income, and an item without amount (amount 0)
ImportItems ==
    {[type |-> "expense", amount |-> 1 * Scale, jarType |-> "NEC"],
     [type |-> "income", amount |-> 2 * Scale, jarType |-> AUTO],
     [type |-> "expense", amount |-> 0, jarType |-> AUTO]}

ImportBatches == UNION {[1..n -> ImportItems] : n \in 1..MaxBatch}

\* the reader.onload callback once importTransactionsAI has returned a list
handleImportFile(imported) ==
    /\ Len(imported) > 0
    /\ LET newTxs == [i \in 1..Len(imported) |->
                        Transaction(<<"", now, i, 1>>, imported[i].type,
                                    imported[i].amount, imported[i].jarType, NoId, NoId)]
       IN  /\ balances' = ApplyAll(balances, newTxs)
           /\ transactions' = newTxs \o transactions
    /\ toast' = "import OK"
    /\ lastAlert' = "none"
    /\ UNCHANGED <<recurringTemplates, loans, events, futureGroups>>

\* ------------------------------------------------------------------- loans
Loan(id, type, principal, paidAmount, loanJar) ==
    [id |-> id, type |-> type, principal |-> principal,
     paidAmount |-> paidAmount, loanJar |-> loanJar]

\* the transaction handleSaveLoan builds from the form (and from the old loan)
LoanSyntheticTx(loanId, type, principal, loanJar) ==
    Transaction(<<"loan_", loanId[2], 0, 0>>,
                IF type = "BORROW" THEN "income" ELSE "expense",
                principal, loanJar, loanId, NoId)

\* mutant: an edit applies the new initiating effect on top of the old one
SaveLoanResult_EditKeepsOld(bal, lns, editingLoanId, type, principalVnd, finalLoanJar, stamp) ==
    LET loanId == IF editingLoanId # NoId THEN editingLoanId ELSE PlainId(stamp)
        syntheticTx == LoanSyntheticTx(loanId, type, principalVnd, finalLoanJar)
    IN  IF editingLoanId # NoId
        THEN LET oldLoan == Find(lns, LAMBDA l : l.id = editingLoanId)
             IN  [balances |->
                     IF oldLoan # Null
                     THEN updateBalances(bal, Null, syntheticTx)
                     ELSE bal,
                  loans |->
                     SeqMap(LAMBDA l :
                                IF l.id = editingLoanId
                                THEN Loan(l.id, type, principalVnd, l.paidAmount, finalLoanJar)
                                ELSE l,
                            lns)]
        ELSE [balances |-> updateBalances(bal, Null, syntheticTx),
              loans |-> <<Loan(loanId, type, principalVnd, 0, finalLoanJar)>> \o lns]

\* mutant: a new loan is applied to the balances as money coming in, whatever
\* its type
SaveLoanResult_AlwaysIncome(bal, lns, editingLoanId, type, principalVnd, finalLoanJar, stamp) ==
    LET loanId == IF editingLoanId # NoId THEN editingLoanId ELSE PlainId(stamp)
        syntheticTx == LoanSyntheticTx(loanId, "BORROW", principalVnd, finalLoanJar)
    IN  IF editingLoanId # NoId
        THEN LET oldLoan == Find(lns, LAMBDA l : l.id = editingLoanId)
             IN  [balances |->
                     IF oldLoan # Null
                     THEN updateBalances(bal,
                              LoanSyntheticTx(oldLoan.id, oldLoan.type,
                                              oldLoan.principal, oldLoan.loanJar),
                              syntheticTx)
                     ELSE bal,
                  loans |->
                     SeqMap(LAMBDA l :
                                IF l.id = editingLoanId
                                THEN Loan(l.id, type, principalVnd, l.paidAmount, finalLoanJar)
                                ELSE l,
                            lns)]
        ELSE [balances |-> updateBalances(bal, Null, syntheticTx),
              loans |-> <<Loan(loanId, type, principalVnd, 0, finalLoanJar)>> \o lns]

SaveLoanResult(bal, lns, editingLoanId, type, principalVnd, finalLoanJar, stamp) ==
    LET loanId == IF editingLoanId # NoId THEN editingLoanId ELSE PlainId(stamp)
        syntheticTx == LoanSyntheticTx(loanId, type, principalVnd, finalLoanJar)
    IN  IF editingLoanId # NoId
        THEN LET oldLoan == Find(lns, LAMBDA l : l.id = editingLoanId)
             IN  [balances |->
                     IF oldLoan # Null
                     THEN updateBalances(bal,
                              LoanSyntheticTx(oldLoan.id, oldLoan.type,
                                              oldLoan.principal, oldLoan.loanJar),
                              syntheticTx)
                     ELSE bal,
                  loans |->
                     SeqMap(LAMBDA l :
                                IF l.id = editingLoanId
                                THEN Loan(l.id, type, principalVnd, l.paidAmount, finalLoanJar)
                                ELSE l,
                            lns)]
        ELSE [balances |-> updateBalances(bal, Null, syntheticTx),
              loans |-> <<Loan(loanId, type, principalVnd, 0, finalLoanJar)>> \o lns]

\* the form is submitted with a partner name and a non-empty principal field
handleSaveLoan(editingLoanId, type, principalVnd, finalLoanJar) ==
    /\ LET r == SaveLoanResult(balances, loans, editingLoanId, type,
                               principalVnd, finalLoanJar, now)
       IN  /\ balances' = r.balances
           /\ loans' = r.loans
    /\ lastAlert' = "none"
    /\ UNCHANGED <<recurringTemplates, transactions, events, futureGroups, toast>>

\* mutant: a payment replaces the earlier payments of the loan in the ledger
handlePaymentSubmit_ReplacesPayments(paymentLoanId, amountVnd) ==
    LET targetLoan == Find(loans, LAMBDA l : l.id = paymentLoanId)
    IN  /\ targetLoan # Null
        /\ amountVnd > 0
        /\ IF amountVnd > (targetLoan.principal - targetLoan.paidAmount) + Epsilon
           THEN /\ lastAlert' = "confirm_delete_msg"
                /\ UNCHANGED <<recurringTemplates, balances, transactions, loans, events, futureGroups,
                               toast>>
           ELSE /\ LET payTx == Transaction(PayId(now),
                                    IF targetLoan.type = "BORROW" THEN "expense" ELSE "income",
                                    amountVnd, targetLoan.loanJar, paymentLoanId, NoId)
                   IN  /\ balances' = updateBalances(balances, Null, payTx)
                       /\ loans' = SeqMap(LAMBDA l :
                                              IF l.id = paymentLoanId
                                              THEN [l EXCEPT !.paidAmount = @ + amountVnd]
                                              ELSE l,
                                          loans)
                       /\ transactions' =
                              <<payTx>> \o SelectSeq(transactions,
                                                     LAMBDA tx : tx.loanId # paymentLoanId)
                /\ toast' = "Payment OK"
                /\ lastAlert' = "none"
                /\ UNCHANGED <<recurringTemplates, events, futureGroups>>

\* mutant: a payment is taken whatever remains of the principal
handlePaymentSubmit_NoOverpayCheck(paymentLoanId, amountVnd) ==
    LET targetLoan == Find(loans, LAMBDA l : l.id = paymentLoanId)
    IN  /\ targetLoan # Null
        /\ amountVnd > 0
        /\ LET payTx == Transaction(PayId(now),
                            IF targetLoan.type = "BORROW" THEN "expense" ELSE "income",
                            amountVnd, targetLoan.loanJar, paymentLoanId, NoId)
           IN  /\ balances' = updateBalances(balances, Null, payTx)
               /\ loans' = SeqMap(LAMBDA l :
                                      IF l.id = paymentLoanId
                                      THEN [l EXCEPT !.paidAmount = @ + amountVnd]
                                      ELSE l,
                                  loans)
               /\ transactions' = <<payTx>> \o transactions
        /\ toast' = "Payment OK"
        /\ lastAlert' = "none"
        /\ UNCHANGED <<recurringTemplates, events, futureGroups>>

handlePaymentSubmit(paymentLoanId, amountVnd) ==
    LET targetLoan == Find(loans, LAMBDA l : l.id = paymentLoanId)
    IN  IF targetLoan = Null \/ amountVnd <= 0
        THEN UNCHANGED <<balances, transactions, loans, recurringTemplates, events, futureGroups,
                    toast, lastAlert>>
        ELSE
           IF amountVnd > (targetLoan.principal - targetLoan.paidAmount) + Epsilon
           THEN /\ lastAlert' = "confirm_delete_msg"
                /\ UNCHANGED <<recurringTemplates, balances, transactions, loans, events, futureGroups,
                               toast>>
           ELSE /\ LET payTx == Transaction(PayId(now),
                                    IF targetLoan.type = "BORROW" THEN "expense" ELSE "income",
                                    amountVnd, targetLoan.loanJar, paymentLoanId, NoId)
                   IN  /\ balances' = updateBalances(balances, Null, payTx)
                       /\ loans' = SeqMap(LAMBDA l :
                                              IF l.id = paymentLoanId
                                              THEN [l EXCEPT !.paidAmount = @ + amountVnd]
                                              ELSE l,
                                          loans)
                       /\ transactions' = <<payTx>> \o transactions
                /\ toast' = "Payment OK"
                /\ lastAlert' = "none"
                /\ UNCHANGED <<recurringTemplates, events, futureGroups>>

\* ------------------------------------------------- event and future groups
Group(id, txs) == [id |-> id, transactions |-> txs]

\* an entry of a group: a transaction without jarType
Entry(id, type, amount) == Transaction(id, type, amount, AUTO, NoId, NoId)

handleSaveEvent ==
    /\ events' = Append(events, Group(PlainId(now), <<>>))
    /\ toast' = "Event OK"
    /\ lastAlert' = "none"
    /\ UNCHANGED <<recurringTemplates, balances, transactions, loans, futureGroups>>

\* mutant: an entry added to an event is applied to the jar balances
handleEventEntrySubmit_AppliesEntry(activeEventId, eventManualType, amountVnd) ==
    IF amountVnd <= 0
    THEN UNCHANGED <<balances, transactions, loans, recurringTemplates, events, futureGroups,
                    toast, lastAlert>>
    ELSE /\ events' = SeqMap(LAMBDA ev :
                                 IF ev.id = activeEventId
                                 THEN [ev EXCEPT !.transactions =
                                          <<Entry(PlainId(now), eventManualType, amountVnd)>> \o @]
                                 ELSE ev,
                             events)
         /\ balances' = updateBalances(balances, Null,
                                       Entry(PlainId(now), eventManualType, amountVnd))
         /\ toast' = "Added"
         /\ lastAlert' = "none"
         /\ UNCHANGED <<recurringTemplates, transactions, loans, futureGroups>>

handleEventEntrySubmit(activeEventId, eventManualType, amountVnd) ==
    IF amountVnd <= 0
    THEN UNCHANGED <<balances, transactions, loans, recurringTemplates, events, futureGroups,
                    toast, lastAlert>>
    ELSE /\ events' = SeqMap(LAMBDA ev :
                                 IF ev.id = activeEventId
                                 THEN [ev EXCEPT !.transactions =
                                          <<Entry(PlainId(now), eventManualType, amountVnd)>> \o @]
                                 ELSE ev,
                             events)
         /\ toast' = "Added"
         /\ lastAlert' = "none"
         /\ UNCHANGED <<recurringTemplates, balances, transactions, loans, futureGroups>>

handleDeleteEventTransaction(eventId, txId) ==
    /\ events' = SeqMap(LAMBDA ev :
                            IF ev.id = eventId
                            THEN [ev EXCEPT !.transactions =
                                     SelectSeq(@, LAMBDA t : t.id # txId)]
                            ELSE ev,
                        events)
    /\ toast' = "Removed"
    /\ lastAlert' = "none"
    /\ UNCHANGED <<recurringTemplates, balances, transactions, loans, futureGroups>>

\* mutant: the committed amount is the sum of all entries, whatever their type
EventMainTx_SumsAmounts(event, jarType) ==
    LET totalIncome ==
            SeqSum(SeqMap(LAMBDA t : t.amount,
                          SelectSeq(event.transactions, LAMBDA t : t.type = "income")))
        totalExpense ==
            SeqSum(SeqMap(LAMBDA t : t.amount,
                          SelectSeq(event.transactions, LAMBDA t : t.type = "expense")))
        mainType == IF totalIncome >= totalExpense THEN "income" ELSE "expense"
    IN  Transaction(EvMainId(event.id), mainType, totalIncome + totalExpense, jarType,
                    NoId, NoId)

\* the net transaction handlePushEventToHistory builds
EventMainTx(event, jarType) ==
    LET totalIncome ==
            SeqSum(SeqMap(LAMBDA t : t.amount,
                          SelectSeq(event.transactions, LAMBDA t : t.type = "income")))
        totalExpense ==
            SeqSum(SeqMap(LAMBDA t : t.amount,
                          SelectSeq(event.transactions, LAMBDA t : t.type = "expense")))
        netAmount == IF totalIncome >= totalExpense
                     THEN totalIncome - totalExpense ELSE totalExpense - totalIncome
        mainType == IF totalIncome >= totalExpense THEN "income" ELSE "expense"
    IN  Transaction(EvMainId(event.id), mainType, netAmount, jarType, NoId, NoId)

\* mutant: the commit leaves the event in the list
handlePushEventToHistory_KeepsGroup(event, jarType) ==
    /\ Len(event.transactions) # 0
    /\ LET mainTx == EventMainTx(event, jarType)
       IN  /\ transactions' = <<mainTx>> \o transactions
           /\ balances' = updateBalances(balances, Null, mainTx)
    /\ events' = events
    /\ toast' = "Saved to History"
    /\ lastAlert' = "none"
    /\ UNCHANGED <<recurringTemplates, loans, futureGroups>>

handlePushEventToHistory(event, jarType) ==
    /\ Len(event.transactions) # 0
    /\ LET mainTx == EventMainTx(event, jarType)
       IN  /\ transactions' = <<mainTx>> \o transactions
           /\ balances' = updateBalances(balances, Null, mainTx)
    /\ events' = SelectSeq(events, LAMBDA e : e.id # event.id)
    /\ toast' = "Saved to History"
    /\ lastAlert' = "none"
    /\ UNCHANGED <<recurringTemplates, loans, futureGroups>>

handleSaveFuture ==
    /\ futureGroups' = Append(futureGroups, Group(PlainId(now), <<>>))
    /\ toast' = "Future Plan OK"
    /\ lastAlert' = "none"
    /\ UNCHANGED <<recurringTemplates, balances, transactions, loans, events>>

handleFutureEntrySubmit(activeFutureId, futureManualType, amountVnd) ==
    IF amountVnd <= 0
    THEN UNCHANGED <<balances, transactions, loans, recurringTemplates, events, futureGroups,
                    toast, lastAlert>>
    ELSE /\ futureGroups' =
                SeqMap(LAMBDA f :
                           IF f.id = activeFutureId
                           THEN [f EXCEPT !.transactions =
                                    <<Entry(PlainId(now), futureManualType, amountVnd)>> \o @]
                           ELSE f,
                       futureGroups)
         /\ toast' = "Added Plan"
         /\ lastAlert' = "none"
         /\ UNCHANGED <<recurringTemplates, balances, transactions, loans, events>>

handleDeleteFutureTransaction(futureId, txId) ==
    /\ futureGroups' =
           SeqMap(LAMBDA f :
                      IF f.id = futureId
                      THEN [f EXCEPT !.transactions =
                               SelectSeq(@, LAMBDA t : t.id # txId)]
                      ELSE f,
                  futureGroups)
    /\ toast' = "Removed Plan"
    /\ lastAlert' = "none"
    /\ UNCHANGED <<recurringTemplates, balances, transactions, loans, events>>

\* mutant: the emitted transactions keep the jar of the entries (none)
FutureRealTxs_NotRetargeted(future, jarType, stamp) ==
    [i \in 1..Len(future.transactions) |->
        [future.transactions[i] EXCEPT !.id = FutRealId(future.id, i - 1, stamp)]]

\* the transactions handlePushFutureToHistory emits, in the order of the entries
FutureRealTxs(future, jarType, stamp) ==
    [i \in 1..Len(future.transactions) |->
        [future.transactions[i] EXCEPT
            !.id = FutRealId(future.id, i - 1, stamp),
            !.jarType = jarType]]

\* setTransactions(p => [realTx, ...p]) for each entry in turn
RECURSIVE PrependEach(_, _)
PrependEach(txs, list) ==
    IF txs = <<>> THEN list ELSE PrependEach(Tail(txs), <<Head(txs)>> \o list)

handlePushFutureToHistory(future, jarType) ==
    /\ Len(future.transactions) # 0
    /\ LET realTxs == FutureRealTxs(future, jarType, now)
       IN  /\ transactions' = PrependEach(realTxs, transactions)
           /\ balances' = ApplyAll(balances, realTxs)
    /\ futureGroups' = SelectSeq(futureGroups, LAMBDA f : f.id # future.id)
    /\ toast' = "Plans Executed"
    /\ lastAlert' = "none"
    /\ UNCHANGED <<recurringTemplates, loans, events>>

\* ------------------------------------------------------ recurring templates
\* the form is submitted with a description
handleSaveRecurring(amountVnd) ==
    IF amountVnd <= 0
    THEN UNCHANGED <<balances, transactions, loans, recurringTemplates, events, futureGroups,
                    toast, lastAlert>>
    ELSE /\ recurringTemplates' =
                Append(recurringTemplates, [id |-> PlainId(now), amount |-> amountVnd])
         /\ toast' = "Recurring OK"
         /\ lastAlert' = "none"
         /\ UNCHANGED <<balances, transactions, loans, events, futureGroups>>

\* the bin button of a template
deleteRecurringTemplate(id) ==
    /\ recurringTemplates' = SelectSeq(recurringTemplates, LAMBDA x : x.id # id)
    /\ UNCHANGED <<balances, transactions, loans, events, futureGroups, toast, lastAlert>>

\* ----------------------------------------------------- text input to the AI
\* what generateContent gives back: a JSON text, an empty text, or an error
\* with an HTTP status
AIResults ==
    [action : {"create", "update"}, amount : AmountsOrZero,
     jarType : {"PLAY", "undefined"}, isExpense : {"true", "false", "undefined"}]

ProviderResponses ==
    {[ok |-> TRUE, text |-> r] : r \in AIResults \cup {Null}}
        \cup {[ok |-> FALSE, status |-> st] : st \in {429, 500}}

\* what an awaited call ends with: a value, or a thrown error
Returned(value) == [thrown |-> FALSE, value |-> value]

Thrown(error) == [thrown |-> TRUE, error |-> error]

\* JSON.parse(response.text || "null") inside try; catch logs and returns null
analyzeTransactionText(response) ==
    IF response.ok THEN Returned(response.text) ELSE Returned(Null)

\* the text field is submitted with a text and no request is running
handleProcessInput ==
    /\ ~isLoading
    /\ isLoading' = TRUE
    /\ UNCHANGED <<balances, transactions, loans, recurringTemplates, events, futureGroups,
                   toast, lastAlert>>

\* the rest of handleProcessInput, from the await on
handleProcessInputResume(awaited) ==
    /\ isLoading
    /\ IF ~awaited.thrown
       THEN LET result == awaited.value
            IN  IF result # Null /\ result.action = "create" /\ result.amount > 0
                THEN LET isExpense == result.isExpense # "false"
                         newTrans ==
                             Transaction(PlainId(now),
                                         IF isExpense THEN "expense" ELSE "income",
                                         result.amount,
                                         IF isExpense
                                         THEN (IF result.jarType # "undefined"
                                               THEN result.jarType ELSE "NEC")
                                         ELSE AUTO,
                                         NoId, NoId)
                     IN  /\ transactions' = <<newTrans>> \o transactions
                         /\ balances' = updateBalances(balances, Null, newTrans)
                         /\ toast' = "AI OK"
                ELSE /\ toast' = "history_empty"
                     /\ UNCHANGED <<balances, transactions>>
       ELSE /\ toast' = (IF awaited.error.status = 429
                         THEN "ai_quota_exceeded" ELSE "AI Error")
            /\ UNCHANGED <<balances, transactions>>
    /\ isLoading' = FALSE
    /\ lastAlert' = "none"
    /\ UNCHANGED <<loans, recurringTemplates, events, futureGroups>>

\* ------------------------------------------------------------- the session
\* the callback of onAuthStateChanged; handleSignOut() in it starts signOut
onAuthStateChanged(firebaseUser) ==
    /\ IF firebaseUser # NoUser /\ emailVerified(firebaseUser)
       THEN IF last_auth_time # <<>> /\ now - last_auth_time[1] > SESSION_TIMEOUT
            THEN /\ signOutPending' = TRUE
                 /\ UNCHANGED <<currentUser, isCloudLoaded, isAuthModalOpen, last_auth_time>>
            ELSE /\ last_auth_time' = (IF last_auth_time = <<>> THEN <<now>> ELSE last_auth_time)
                 /\ currentUser' = firebaseUser
                 /\ isAuthModalOpen' = FALSE
                 /\ UNCHANGED <<isCloudLoaded, signOutPending>>
       ELSE /\ currentUser' = NoUser
            /\ isCloudLoaded' = FALSE
            /\ isAuthModalOpen' = TRUE
            /\ last_auth_time' = <<>>
            /\ UNCHANGED signOutPending
    /\ isAppInitialLoading' = FALSE
    /\ UNCHANGED <<balances, transactions, loans, recurringTemplates, events, futureGroups,
                   toast, lastAlert>>

\* the sign-out button: signOut(auth) is called
handleSignOut ==
    /\ signOutPending' = TRUE
    /\ UNCHANGED <<currentUser, isCloudLoaded, isAuthModalOpen, isAppInitialLoading,
                   last_auth_time>>
    /\ UNCHANGED <<balances, transactions, loans, recurringTemplates, events, futureGroups,
                   toast, lastAlert>>

\* signOut(auth).then(...)
handleSignOutThen ==
    /\ signOutPending
    /\ signOutPending' = FALSE
    /\ currentUser' = NoUser
    /\ isCloudLoaded' = FALSE
    /\ isAuthModalOpen' = TRUE
    /\ last_auth_time' = <<>>
    /\ toast' = "Signed out"
    /\ UNCHANGED isAppInitialLoading
    /\ UNCHANGED <<balances, transactions, loans, recurringTemplates, events, futureGroups,
                   lastAlert>>

\* the effect on [currentUser?.id, isCloudLoaded], run after a step that
\* changed one of them: getDoc is called for the user now signed in
loadFromCloudEffect ==
    IF /\ <<currentUser, isCloudLoaded>>' # <<currentUser, isCloudLoaded>>
       /\ currentUser' # NoUser
       /\ ~isCloudLoaded'
    THEN pendingLoads' = pendingLoads \cup {[user |-> currentUser', session |-> session'.n]}
    ELSE pendingLoads' = pendingLoads

\* the rest of loadFromCloud, from the await on: the document read, or an error
loadFromCloudResume(load, outcome) ==
    /\ load \in pendingLoads
    /\ pendingLoads' = pendingLoads \ {load}
    /\ IF outcome = "ok"
       THEN LET data == LoadedInto(Snapshot, users_data[load.user])
            IN  /\ balances' = data.balances
                /\ transactions' = data.transactions
                /\ loans' = data.loans
                /\ recurringTemplates' = data.recurringTemplates
                /\ events' = data.events
                /\ futureGroups' = data.futureGroups
       ELSE UNCHANGED <<balances, transactions, loans, recurringTemplates, events, futureGroups>>
    /\ isCloudLoaded' = TRUE
    /\ UNCHANGED <<currentUser, isAuthModalOpen, isAppInitialLoading, last_auth_time,
                   signOutPending, toast, lastAlert>>

\* mutant: a leading debounce, a pending timer is kept when the state changes
saveEffect_KeepsPendingTimer ==
    IF <<Snapshot, currentUser, isCloudLoaded>>' = <<Snapshot, currentUser, isCloudLoaded>>
    THEN timeoutId' = timeoutId
    ELSE IF currentUser' # NoUser /\ isCloudLoaded'
         THEN timeoutId' = (IF timeoutId # Null THEN timeoutId
                            ELSE [due |-> now + SaveDelay, user |-> currentUser',
                                  data |-> Snapshot'])
         ELSE timeoutId' = Null

\* the effect on the state blob, currentUser and isCloudLoaded, run after a
\* step that changed one of them: the cleanup clears the timer of the previous
\* run, and a new timer is started when a user is signed in and loaded
saveEffect ==
    IF <<Snapshot, currentUser, isCloudLoaded>>' = <<Snapshot, currentUser, isCloudLoaded>>
    THEN timeoutId' = timeoutId
    ELSE IF currentUser' # NoUser /\ isCloudLoaded'
         THEN timeoutId' = [due |-> now + SaveDelay, user |-> currentUser',
                            data |-> Snapshot']
         ELSE timeoutId' = Null

\* the callback of the save timer: setDoc(docRef, sanitizeData(rawData))
saveTimeout ==
    /\ timeoutId # Null
    /\ now >= timeoutId.due
    /\ users_data' = [users_data EXCEPT ![timeoutId.user] =
                         Doc(SnapshotFields, sanitizeData(timeoutId.data))]
    /\ lastSetDoc' = [user |-> timeoutId.user, at |-> now,
                      data |-> sanitizeData(timeoutId.data)]
    /\ timeoutId' = Null
    /\ UNCHANGED <<balances, transactions, loans, recurringTemplates, events, futureGroups,
                   toast, lastAlert, currentUser, isCloudLoaded, isAuthModalOpen,
                   isAppInitialLoading, last_auth_time, signOutPending, pendingLoads>>

\* ------------------------------------------------------ derived statistics
stats(bal, lns) ==
    LET debt == SeqSum(SeqMap(LAMBDA l : l.principal - l.paidAmount,
                              SelectSeq(lns, LAMBDA l : l.type = "BORROW")))
        lent == SeqSum(SeqMap(LAMBDA l : l.principal - l.paidAmount,
                              SelectSeq(lns, LAMBDA l : l.type = "LEND")))
        net == SeqSum([i \in 1..6 |->
                          bal[<<"NEC", "LTS", "EDU", "PLAY", "FFA", "GIVE">>[i]]])
                   + lent - debt
    IN  [debt |-> debt, lent |-> lent, net |-> net]

\* ------------------------------------------------------------ the program
Range(s) == {s[i] : i \in 1..Len(s)}

\* the "+" button, then the entry form
ManualAdd ==
    /\ CanStep
    /\ Tick
    /\ UNCHANGED <<engine, outside>>
    /\ \E type \in TxTypes, amount \in Amounts, jar \in JarChoices :
             handleManualSubmit(NoId, type, amount, jar)

\* the edit button of a row of the history, then the entry form
ManualEdit ==
    /\ CanStep
    /\ Tick
    /\ UNCHANGED <<engine, outside>>
    /\ \E tx \in Range(transactions), type \in TxTypes, amount \in Amounts,
             jar \in JarChoices :
             handleManualSubmit(tx.id, type, amount, jar)

\* the delete button of a history row, a loan, an event or a future group
TripleDelete ==
    /\ CanStep
    /\ Tick
    /\ UNCHANGED <<engine, outside>>
    /\ \E id \in Ids(transactions) \cup Ids(loans) \cup Ids(events) \cup Ids(futureGroups) :
             handleTripleDelete(id)

TransferSubmit ==
    /\ CanStep
    /\ Tick
    /\ UNCHANGED <<engine, outside>>
    /\ \E from \in TransferJars, to \in TransferJars, amount \in AmountsOrZero :
             handleTransferSubmit(from, to, amount)

ImportFile ==
    /\ CanStep
    /\ Tick
    /\ UNCHANGED <<engine, outside>>
    /\ \E imported \in ImportBatches : handleImportFile(imported)

LoanCreate ==
    /\ CanStep
    /\ Tick
    /\ UNCHANGED <<engine, outside>>
    /\ \E type \in LoanTypes, principal \in Amounts, jar \in JarChoices :
             handleSaveLoan(NoId, type, principal, jar)

\* the edit button of a loan, then the loan form
LoanEdit ==
    /\ CanStep
    /\ Tick
    /\ UNCHANGED <<engine, outside>>
    /\ \E loan \in Range(loans), type \in LoanTypes, principal \in Amounts,
             jar \in JarChoices :
             handleSaveLoan(loan.id, type, principal, jar)

\* the pay button is shown while loan.paidAmount < loan.principal
PaymentSubmit ==
    /\ CanStep
    /\ Tick
    /\ UNCHANGED <<engine, outside>>
    /\ \E loan \in Range(loans), amount \in Amounts :
             /\ loan.paidAmount < loan.principal
             /\ handlePaymentSubmit(loan.id, amount)

SaveEvent ==
    /\ CanStep
    /\ Tick
    /\ UNCHANGED <<engine, outside>>
    /\ handleSaveEvent

EventEntrySubmit ==
    /\ CanStep
    /\ Tick
    /\ UNCHANGED <<engine, outside>>
    /\ \E ev \in Range(events), type \in TxTypes, amount \in Amounts :
             handleEventEntrySubmit(ev.id, type, amount)

DeleteEventTransaction ==
    /\ CanStep
    /\ Tick
    /\ UNCHANGED <<engine, outside>>
    /\ \E ev \in Range(events) : \E t \in Range(ev.transactions) :
             handleDeleteEventTransaction(ev.id, t.id)

PushEventToHistory ==
    /\ CanStep
    /\ Tick
    /\ UNCHANGED <<engine, outside>>
    /\ \E ev \in Range(events), jar \in JarChoices : handlePushEventToHistory(ev, jar)

SaveFuture ==
    /\ CanStep
    /\ Tick
    /\ UNCHANGED <<engine, outside>>
    /\ handleSaveFuture

FutureEntrySubmit ==
    /\ CanStep
    /\ Tick
    /\ UNCHANGED <<engine, outside>>
    /\ \E f \in Range(futureGroups), type \in TxTypes, amount \in Amounts :
             handleFutureEntrySubmit(f.id, type, amount)

DeleteFutureTransaction ==
    /\ CanStep
    /\ Tick
    /\ UNCHANGED <<engine, outside>>
    /\ \E f \in Range(futureGroups) : \E t \in Range(f.transactions) :
             handleDeleteFutureTransaction(f.id, t.id)

PushFutureToHistory ==
    /\ CanStep
    /\ Tick
    /\ UNCHANGED <<engine, outside>>
    /\ \E f \in Range(futureGroups), jar \in JarChoices : handlePushFutureToHistory(f, jar)

Next ==
    \/ ManualAdd
    \/ ManualEdit
    \/ TripleDelete
    \/ TransferSubmit
    \/ ImportFile
    \/ LoanCreate
    \/ LoanEdit
    \/ PaymentSubmit
    \/ SaveEvent
    \/ EventEntrySubmit
    \/ DeleteEventTransaction
    \/ PushEventToHistory
    \/ SaveFuture
    \/ FutureEntrySubmit
    \/ DeleteFutureTransaction
    \/ PushFutureToHistory

Spec == Init /\ [][Next]_vars

\* ------------------------------------- the ledger with manual entries and
\* transfers only
NextTransfers ==
    \/ ManualAdd
    \/ ManualEdit
    \/ TripleDelete
    \/ TransferSubmit

SpecTransfers == Init /\ [][NextTransfers]_vars

\* ------------------------------------- the loans, their payments, and the
\* edit and delete buttons of the rows they put in the history
NextLoans ==
    \/ LoanCreate
    \/ LoanEdit
    \/ PaymentSubmit
    \/ TripleDelete
    \/ ManualEdit

SpecLoans == Init /\ [][NextLoans]_vars

\* ------------------------------------- handlers called with an id that is
\* gone: the button or the form outlived its row (loadFromCloud, an awaited
\* call, replaces the lists while the page is in use)
\* the ids the earlier handler calls could hand out to rows, one call every
\* ClockStep
UsedIds ==
    LET stamps == {ClockStep * k : k \in 0..((now \div ClockStep) - 1)}
    IN  {PlainId(n) : n \in stamps} \cup {PayId(n) : n \in stamps}

StaleIds ==
    UsedIds \ (Ids(transactions) \cup Ids(loans) \cup Ids(events) \cup Ids(futureGroups))

TripleDeleteStale ==
    /\ CanStep
    /\ Tick
    /\ UNCHANGED <<engine, outside>>
    /\ \E id \in StaleIds : handleTripleDelete(id)

ManualEditStale ==
    /\ CanStep
    /\ Tick
    /\ UNCHANGED <<engine, outside>>
    /\ \E id \in StaleIds, type \in TxTypes, amount \in Amounts, jar \in JarChoices :
             handleManualSubmit(id, type, amount, jar)

NextStaleIds ==
    \/ ManualAdd
    \/ TripleDelete
    \/ LoanCreate
    \/ PaymentSubmit
    \/ TripleDeleteStale
    \/ ManualEditStale

SpecStaleIds == Init /\ [][NextStaleIds]_vars

\* ------------------------------------- recurring templates, and the forms
\* submitted with an amount field that parses to 0 ("0", ".")
SaveRecurring ==
    /\ CanStep
    /\ Tick
    /\ UNCHANGED <<engine, outside>>
    /\ \E amount \in AmountsOrZero : handleSaveRecurring(amount)

DeleteRecurring ==
    /\ CanStep
    /\ Tick
    /\ UNCHANGED <<engine, outside>>
    /\ \E tpl \in Range(recurringTemplates) : deleteRecurringTemplate(tpl.id)

ManualSubmitZero ==
    /\ CanStep
    /\ Tick
    /\ UNCHANGED <<engine, outside>>
    /\ \E type \in TxTypes, jar \in JarChoices : handleManualSubmit(NoId, type, 0, jar)

LoanCreateZero ==
    /\ CanStep
    /\ Tick
    /\ UNCHANGED <<engine, outside>>
    /\ \E type \in LoanTypes, jar \in JarChoices : handleSaveLoan(NoId, type, 0, jar)

PaymentSubmitZero ==
    /\ CanStep
    /\ Tick
    /\ UNCHANGED <<engine, outside>>
    /\ \E loan \in Range(loans) :
             /\ loan.paidAmount < loan.principal
             /\ handlePaymentSubmit(loan.id, 0)

EventEntrySubmitZero ==
    /\ CanStep
    /\ Tick
    /\ UNCHANGED <<engine, outside>>
    /\ \E ev \in Range(events), type \in TxTypes : handleEventEntrySubmit(ev.id, type, 0)

FutureEntrySubmitZero ==
    /\ CanStep
    /\ Tick
    /\ UNCHANGED <<engine, outside>>
    /\ \E f \in Range(futureGroups), type \in TxTypes :
             handleFutureEntrySubmit(f.id, type, 0)

NextValidation ==
    \/ ManualAdd
    \/ LoanCreate
    \/ SaveEvent
    \/ SaveFuture
    \/ SaveRecurring
    \/ ManualSubmitZero
    \/ LoanCreateZero
    \/ PaymentSubmitZero
    \/ EventEntrySubmitZero
    \/ FutureEntrySubmitZero

SpecValidation == Init /\ [][NextValidation]_vars

\* ------------------------------------- event groups, future groups and
\* recurring templates, from a session that starts with one event and one
\* future group already holding entries
\* what the two groups hold at the start, as <<type, amount>> from the newest
\* entry to the oldest: nothing, one entry, more income than expense, more
\* expense than income, as much income as expense
StagedLists ==
    {<<>>,
     <<<<"income", 2 * Scale>>>>,
     <<<<"expense", 1 * Scale>>, <<"income", 2 * Scale>>>>,
     <<<<"income", 1 * Scale>>, <<"expense", 2 * Scale>>>>,
     <<<<"expense", 1 * Scale>>, <<"income", 1 * Scale>>>>}

\* the entries of a staged list, with the ids of calls made before stamp base
StagedEntries(base, kinds) ==
    [i \in 1..Len(kinds) |-> Entry(PlainId(base - ClockStep * i), kinds[i][1], kinds[i][2])]

EventBase == 0 - 3 * ClockStep

FutureBase == 2 * EventBase

InitGroups ==
    /\ balances = ZeroBalances
    /\ transactions = <<>>
    /\ loans = <<>>
    /\ recurringTemplates = <<>>
    /\ \E kinds \in StagedLists :
           /\ events = <<Group(PlainId(EventBase), StagedEntries(EventBase, kinds))>>
           /\ futureGroups = <<Group(PlainId(FutureBase), StagedEntries(FutureBase, kinds))>>
    /\ toast = "none"
    /\ lastAlert = "none"
    /\ now = 0
    /\ engine = [pc |-> "idle"]
    /\ SignedInAndLoaded

NextGroups ==
    \/ TripleDelete
    \/ SaveEvent
    \/ EventEntrySubmit
    \/ DeleteEventTransaction
    \/ PushEventToHistory
    \/ SaveFuture
    \/ FutureEntrySubmit
    \/ DeleteFutureTransaction
    \/ PushFutureToHistory
    \/ SaveRecurring
    \/ DeleteRecurring

SpecGroups == InitGroups /\ [][NextGroups]_vars

\* ------------------------------------------------- the text input on its own
outsideButLoading ==
    <<currentUser, isCloudLoaded, isAuthModalOpen, isAppInitialLoading,
      last_auth_time, signOutPending, pendingLoads, timeoutId, users_data,
      lastSetDoc, session>>

ProcessInput ==
    /\ CanStep
    /\ Tick
    /\ UNCHANGED <<engine, outsideButLoading>>
    /\ handleProcessInput

\* the provider answers
ProcessInputAnswered ==
    /\ CanStep
    /\ Tick
    /\ UNCHANGED <<engine, outsideButLoading>>
    /\ \E response \in ProviderResponses :
           handleProcessInputResume(analyzeTransactionText(response))

NextAI ==
    \/ ManualAdd
    \/ TripleDelete
    \/ ProcessInput
    \/ ProcessInputAnswered

SpecAI == Init /\ [][NextAI]_vars

\* ---------------------------------------------------- the session on its own
\* what the store holds for a user at the start: a ledger of one income
StoredTx(u) ==
    Transaction(PlainId(IF u = "A" THEN 0 - ClockStep ELSE 0 - 2 * ClockStep),
                "income", Scale, "NEC", NoId, NoId)

StoredDoc(u) ==
    Doc(SnapshotFields,
        [DefaultSnapshot EXCEPT !.balances = [ZeroBalances EXCEPT !["NEC"] = Scale],
                                !.transactions = <<StoredTx(u)>>])

\* a document that lacks the transactions field
PartialDoc(u) ==
    Doc(SnapshotFields \ {"transactions"}, StoredDoc(u).data)

\* the application starts: nothing is loaded, the auth listener has not been
\* called yet; the browser may hold the time of a sign-in older than
\* SESSION_TIMEOUT; the store holds a ledger for A, and for B a ledger, a
\* document without the transactions field, or nothing
InitCloud ==
    /\ balances = ZeroBalances
    /\ transactions = <<>>
    /\ loans = <<>>
    /\ recurringTemplates = <<>>
    /\ events = <<>>
    /\ futureGroups = <<>>
    /\ toast = "none"
    /\ lastAlert = "none"
    /\ now = 0
    /\ engine = [pc |-> "idle"]
    /\ isLoading = FALSE
    /\ currentUser = NoUser
    /\ isCloudLoaded = FALSE
    /\ isAuthModalOpen = FALSE
    /\ isAppInitialLoading = TRUE
    /\ last_auth_time \in {<<>>, <<0 - SESSION_TIMEOUT - ClockStep>>}
    /\ signOutPending = FALSE
    /\ pendingLoads = {}
    /\ timeoutId = Null
    /\ \E b \in {NoDoc, StoredDoc("B"), PartialDoc("B")} :
           users_data = [u \in Users |-> IF u = "A" THEN StoredDoc("A") ELSE b]
    /\ lastSetDoc = Null
    /\ session = [n |-> 0, previous |-> NoUser, user |-> NoUser, loaded |-> FALSE, failed |-> FALSE,
                  mutated |-> FALSE]

\* the amount entered in the entry form while the session is followed
SessionAmounts == {1 * Scale}

\* the main screen is shown: neither the start-up spinner nor the auth form
UiOpen == ~isAppInitialLoading /\ ~isAuthModalOpen

\* the auth provider reports the user of the browser's session, or nobody, at
\* start-up, and a user after a sign-in through the auth form
AuthStateChanged ==
    /\ \E firebaseUser \in FirebaseUsers \cup {NoUser} :
           /\ IF firebaseUser = NoUser THEN isAppInitialLoading
              ELSE isAppInitialLoading \/ isAuthModalOpen
           /\ firebaseUser # NoUser /\ emailVerified(firebaseUser) => session.n < MaxSessions
           /\ onAuthStateChanged(firebaseUser)
    /\ session' = (IF currentUser' # NoUser /\ currentUser' # currentUser
                   THEN [n |-> session.n + 1, previous |-> session.user,
                         user |-> currentUser', loaded |-> FALSE, failed |-> FALSE,
                         mutated |-> FALSE]
                   ELSE session)
    /\ loadFromCloudEffect
    /\ saveEffect
    /\ UNCHANGED <<now, engine, isLoading, users_data, lastSetDoc>>

SignOut ==
    /\ UiOpen
    /\ currentUser # NoUser
    /\ ~signOutPending
    /\ handleSignOut
    /\ UNCHANGED <<now, engine, isLoading, pendingLoads, timeoutId, users_data, lastSetDoc,
                   session>>

SignOutThen ==
    /\ handleSignOutThen
    /\ UNCHANGED session
    /\ loadFromCloudEffect
    /\ saveEffect
    /\ UNCHANGED <<now, engine, isLoading, users_data, lastSetDoc>>

\* getDoc answers, with the document or with an error
LoadAnswered ==
    /\ \E load \in pendingLoads, outcome \in {"ok", "error"} :
           /\ loadFromCloudResume(load, outcome)
           /\ session' = (IF load.session = session.n /\ load.user = currentUser
                          THEN [session EXCEPT !.loaded = TRUE,
                                               !.failed = (outcome = "error")]
                          ELSE session)
    /\ saveEffect
    /\ UNCHANGED <<now, engine, isLoading, users_data, lastSetDoc>>

SaveTimeout ==
    /\ saveTimeout
    /\ UNCHANGED <<now, engine, isLoading, session>>

\* time passes
Advance ==
    /\ now < ClockStep * MaxTicks
    /\ Tick
    /\ UNCHANGED <<balances, transactions, loans, recurringTemplates, events, futureGroups,
                   toast, lastAlert, engine, outside>>

\* the "+" button, then the entry form, on the main screen
SessionManualAdd ==
    /\ UiOpen
    /\ now < ClockStep * MaxTicks
    /\ Tick
    /\ \E amount \in SessionAmounts : handleManualSubmit(NoId, "income", amount, "NEC")
    /\ session' = [session EXCEPT !.mutated = TRUE]
    /\ UNCHANGED <<engine, isLoading, currentUser, isCloudLoaded, isAuthModalOpen,
                   isAppInitialLoading, last_auth_time, signOutPending, pendingLoads,
                   users_data, lastSetDoc>>
    /\ saveEffect

NextCloud ==
    \/ AuthStateChanged
    \/ SignOut
    \/ SignOutThen
    \/ LoadAnswered
    \/ SaveTimeout
    \/ Advance
    \/ SessionManualAdd

SpecCloud == InitCloud /\ [][NextCloud]_vars

\* ------------------------------------------- the balance engine on its own
\* balance vectors and transactions the engine is given: any jar, or none
EngineBalanceValues == {0 - Scale, 0, Scale}

EngineTransactions ==
    {Transaction(PlainId(0), type, amount, jar, NoId, NoId) :
        type \in TxTypes, amount \in Amounts, jar \in JarType \cup {AUTO}}

InitEngine ==
    /\ balances \in [JarType -> EngineBalanceValues]
    /\ transactions = <<>>
    /\ loans = <<>>
    /\ recurringTemplates = <<>>
    /\ events = <<>>
    /\ futureGroups = <<>>
    /\ toast = "none"
    /\ lastAlert = "none"
    /\ now = 0
    /\ \E t \in EngineTransactions : engine = [pc |-> "start", b |-> balances, t |-> t]
    /\ SignedInAndLoaded

\* updateBalances(null, t)
EngineApply ==
    /\ engine.pc = "start"
    /\ balances' = updateBalances(balances, Null, engine.t)
    /\ engine' = [engine EXCEPT !.pc = "applied"]
    /\ UNCHANGED <<recurringTemplates, transactions, loans, events, futureGroups, toast, lastAlert, now,
                   outside>>

\* updateBalances(t, null)
EngineReverse ==
    /\ engine.pc = "applied"
    /\ balances' = updateBalances(balances, engine.t, Null)
    /\ engine' = [engine EXCEPT !.pc = "reversed"]
    /\ UNCHANGED <<recurringTemplates, transactions, loans, events, futureGroups, toast, lastAlert, now,
                   outside>>

NextEngine ==
    \/ EngineApply
    \/ EngineReverse

SpecEngine == InitEngine /\ [][NextEngine]_vars

\* ------------------------------------- the balance engine on binary64 numbers
\* A JavaScript number is an IEEE-754 binary64 value s * m * 2^e whose
\* significand m has at most SignificandBits bits; every product and sum is
\* the exact result rounded to the nearest such value, ties to even.  A
\* significand is a natural number written as a sequence of limbs in base
\* LimbBase, least significant first, without leading zero limbs.  Amounts
\* here are whole units of base currency (not Scale units), far from the
\* overflow and underflow thresholds.
LimbBits == 12

LimbBase == 2 ^ LimbBits

SignificandBits == 53

\* the largest amount given to the binary64 engine
MaxAmount64 == 64

RECURSIVE BigNorm(_)
BigNorm(x) ==
    IF x # <<>> /\ x[Len(x)] = 0 THEN BigNorm(SubSeq(x, 1, Len(x) - 1)) ELSE x

RECURSIVE BigFromNat(_)
BigFromNat(n) ==
    IF n = 0 THEN <<>> ELSE <<n % LimbBase>> \o BigFromNat(n \div LimbBase)

RECURSIVE BigAddCarry(_, _, _)
BigAddCarry(x, y, c) ==
    IF x = <<>> /\ y = <<>>
    THEN BigFromNat(c)
    ELSE LET s == (IF x = <<>> THEN 0 ELSE Head(x))
                  + (IF y = <<>> THEN 0 ELSE Head(y)) + c
         IN  <<s % LimbBase>>
             \o BigAddCarry(IF x = <<>> THEN <<>> ELSE Tail(x),
                            IF y = <<>> THEN <<>> ELSE Tail(y),
                            s \div LimbBase)

BigAdd(x, y) == BigNorm(BigAddCarry(x, y, 0))

\* x - y for x >= y
RECURSIVE BigSubBorrow(_, _, _)
BigSubBorrow(x, y, b) ==
    IF x = <<>>
    THEN <<>>
    ELSE LET d == Head(x) - (IF y = <<>> THEN 0 ELSE Head(y)) - b
         IN  <<(d + LimbBase) % LimbBase>>
             \o BigSubBorrow(Tail(x), IF y = <<>> THEN <<>> ELSE Tail(y),
                             IF d < 0 THEN 1 ELSE 0)

BigSub(x, y) == BigNorm(BigSubBorrow(x, y, 0))

BigLeq(x, y) ==
    IF Len(x) # Len(y)
    THEN Len(x) < Len(y)
    ELSE \/ x = y
         \/ LET i == CHOOSE i \in 1..Len(x) :
                        /\ x[i] # y[i]
                        /\ \A k \in (i + 1)..Len(x) : x[k] = y[k]
            IN  x[i] < y[i]

\* x * n for one limb n
RECURSIVE BigMulLimb(_, _, _)
BigMulLimb(x, n, c) ==
    IF x = <<>>
    THEN BigFromNat(c)
    ELSE LET p == Head(x) * n + c
         IN  <<p % LimbBase>> \o BigMulLimb(Tail(x), n, p \div LimbBase)

RECURSIVE BigMulRaw(_, _)
BigMulRaw(x, y) ==
    IF y = <<>>
    THEN <<>>
    ELSE BigAddCarry(BigMulLimb(x, Head(y), 0), <<0>> \o BigMulRaw(x, Tail(y)), 0)

BigMul(x, y) == BigNorm(BigMulRaw(x, y))

\* bit i of x, bit 0 being the least significant
BigBit(x, i) ==
    IF (i \div LimbBits) + 1 > Len(x)
    THEN 0
    ELSE (x[(i \div LimbBits) + 1] \div (2 ^ (i % LimbBits))) % 2

BigOdd(x) == BigBit(x, 0) = 1

\* the number of bits of x
BigBits(x) ==
    IF x = <<>>
    THEN 0
    ELSE LimbBits * (Len(x) - 1)
         + (CHOOSE n \in 1..LimbBits :
                2 ^ (n - 1) <= x[Len(x)] /\ x[Len(x)] < 2 ^ n)

\* x * 2^k
BigShl(x, k) ==
    BigNorm([i \in 1..(k \div LimbBits) |-> 0]
            \o BigMulLimb(x, 2 ^ (k % LimbBits), 0))

\* x shifted right by k bits: m is the quotient, guard is the last bit
\* shifted out and sticky tells whether a bit shifted out before it was set
BigShr(x, k) ==
    [m |-> BigNorm([i \in 1..(Len(x) - (k \div LimbBits)) |->
                      LET n == i + (k \div LimbBits)
                          lo == x[n] \div (2 ^ (k % LimbBits))
                          hi == IF n < Len(x)
                                THEN x[n + 1] % (2 ^ (k % LimbBits))
                                ELSE 0
                      IN  lo + hi * (2 ^ (LimbBits - (k % LimbBits)))]),
     guard |-> k > 0 /\ BigBit(x, k - 1) = 1,
     sticky |-> \E i \in 0..(k - 2) : BigBit(x, i) = 1]

\* x = m * 2^e rounded to nearest, ties to even
RoundToSignificand(x) ==
    LET bits == BigBits(x)
        k == IF bits > SignificandBits THEN bits - SignificandBits ELSE 0
        r == BigShr(x, k)
        up == r.guard /\ (r.sticky \/ BigOdd(r.m))
    IN  [m |-> IF up THEN BigAdd(r.m, <<1>>) ELSE r.m, e |-> k]

F64(s, m, e) == [s |-> s, m |-> m, e |-> IF m = <<>> THEN 0 ELSE e]

\* an integer literal or integer-valued field
F64FromInt(n) == F64(IF n < 0 THEN -1 ELSE 1, BigFromNat(IF n < 0 THEN 0 - n ELSE n), 0)

\* the operator * of JavaScript
F64Mul(x, y) ==
    LET r == RoundToSignificand(BigMul(x.m, y.m))
    IN  F64(x.s * y.s, r.m, x.e + y.e + r.e)

\* the operator + of JavaScript (as in nb[type] += ...)
F64Add(x, y) ==
    IF x.m = <<>> THEN y
    ELSE IF y.m = <<>> THEN x
    ELSE LET e == IF x.e < y.e THEN x.e ELSE y.e
             mx == BigShl(x.m, x.e - e)
             my == BigShl(y.m, y.e - e)
             s == IF x.s = y.s \/ BigLeq(my, mx) THEN x.s ELSE y.s
             m == IF x.s = y.s THEN BigAdd(mx, my)
                  ELSE IF BigLeq(my, mx) THEN BigSub(mx, my) ELSE BigSub(my, mx)
             r == RoundToSignificand(m)
         IN  F64(s, r.m, e + r.e)

\* mutant: NEC takes 0.5, so the ratios sum to 0.95
jarRatios64_NecIsHalf ==
    [j \in JarType |->
        CASE j = "NEC" -> F64(1, <<1>>, -1)
          [] j = "GIVE" -> F64(1, <<2458, 2457, 2457, 2457, 25>>, -57)
          [] OTHER -> F64(1, <<2458, 2457, 2457, 2457, 25>>, -56)]

\* settings.jarRatios with the default ratios: the binary64 values of the
\* literals 0.55 (0x1.199999999999ap-1), 0.10 (0x1.999999999999ap-4) and
\* 0.05 (0x1.999999999999ap-5)
jarRatios64 ==
    [j \in JarType |->
        CASE j = "NEC" -> F64(1, <<2458, 2457, 2457, 2457, 17>>, -53)
          [] j = "GIVE" -> F64(1, <<2458, 2457, 2457, 2457, 25>>, -57)
          [] OTHER -> F64(1, <<2458, 2457, 2457, 2457, 25>>, -56)]

\* nb[jar] += amount * factor, or
\* nb[type] += amount * ratios[type] * factor on every jar
AddEffect64(nb, trans, factor) ==
    IF trans.jarType # AUTO
    THEN [nb EXCEPT ![trans.jarType] =
            F64Add(@, F64Mul(F64FromInt(trans.amount), F64FromInt(factor)))]
    ELSE [j \in JarType |->
            F64Add(nb[j],
                   F64Mul(F64Mul(F64FromInt(trans.amount), jarRatios64[j]),
                          F64FromInt(factor)))]

updateBalances64(prevBalances, prevTrans, nextTrans) ==
    LET afterPrev ==
            IF prevTrans # Null
            THEN AddEffect64(prevBalances, prevTrans,
                             IF prevTrans.type = "income" THEN -1 ELSE 1)
            ELSE prevBalances
    IN  IF nextTrans # Null
        THEN AddEffect64(afterPrev, nextTrans,
                         IF nextTrans.type = "income" THEN 1 ELSE -1)
        ELSE afterPrev

\* the transactions given to the binary64 engine: whole amounts, every jar
\* or none
Transactions64 ==
    {Transaction(PlainId(0), type, amount, jar, NoId, NoId) :
        type \in TxTypes, amount \in 1..MaxAmount64, jar \in {AUTO, "NEC", "GIVE"}}

ZeroBalances64 == [j \in JarType |-> F64FromInt(0)]

\* the balance vectors given to the binary64 engine: all zero, or the
\* balances after one AUTO income of one unit
Balances64 ==
    {ZeroBalances64,
     updateBalances64(ZeroBalances64, Null,
                      Transaction(PlainId(0), "income", 1, AUTO, NoId, NoId))}

Init64 ==
    /\ balances \in Balances64
    /\ transactions = <<>>
    /\ loans = <<>>
    /\ recurringTemplates = <<>>
    /\ events = <<>>
    /\ futureGroups = <<>>
    /\ toast = "none"
    /\ lastAlert = "none"
    /\ now = 0
    /\ \E t \in Transactions64 : engine = [pc |-> "start", b |-> balances, t |-> t]
    /\ SignedInAndLoaded

\* updateBalances(null, t)
Apply64 ==
    /\ engine.pc = "start"
    /\ balances' = updateBalances64(balances, Null, engine.t)
    /\ engine' = [engine EXCEPT !.pc = "applied"]
    /\ UNCHANGED <<recurringTemplates, transactions, loans, events, futureGroups, toast, lastAlert, now,
                   outside>>

\* updateBalances(t, null)
Reverse64 ==
    /\ engine.pc = "applied"
    /\ balances' = updateBalances64(balances, engine.t, Null)
    /\ engine' = [engine EXCEPT !.pc = "reversed"]
    /\ UNCHANGED <<recurringTemplates, transactions, loans, events, futureGroups, toast, lastAlert, now,
                   outside>>

Next64 ==
    \/ Apply64
    \/ Reverse64

Spec64 == Init64 /\ [][Next64]_vars

\* ================================================================ claims
\* the signed contribution of a transaction to one jar: +amount for income
\* and -amount for expense on its jar, amount x ratio on every jar without jar
Contribution(tx, jar) ==
    LET sign == IF tx.type = "income" THEN 1 ELSE -1
    IN  IF tx.jarType = AUTO
        THEN sign * ((tx.amount * defaultRatios[jar]) \div RatioDen)
        ELSE IF tx.jarType = jar THEN sign * tx.amount ELSE 0

LedgerSum(jar) == SeqSum(SeqMap(LAMBDA tx : Contribution(tx, jar), transactions))

\* the contribution of a loan's principal: received for BORROW, paid out for LEND
LoanContribution(loan, jar) ==
    Contribution([type |-> IF loan.type = "BORROW" THEN "income" ELSE "expense",
                  amount |-> loan.principal, jarType |-> loan.loanJar], jar)

LoanSum(jar) == SeqSum(SeqMap(LAMBDA l : LoanContribution(l, jar), loans))

C2_ApplyThenReverseRestores ==
    engine.pc = "reversed" => \A jar \in JarType : balances[jar] = engine.b[jar]

\* an untagged expense was applied to a vector with a negative jar and reversed
C2_Witness ==
    /\ engine.pc = "reversed"
    /\ engine.t.jarType = AUTO
    /\ engine.t.type = "expense"
    /\ engine.b["NEC"] < 0
    /\ engine.b["GIVE"] > 0

\* C3: editing a ledger transaction into another one leaves the balances that
\* deleting it and then creating the other one from the same state leaves
C3_EditEqualsDeleteThenCreate ==
    \A tx \in Range(transactions) :
        \A type \in TxTypes, amount \in Amounts, jar \in JarChoices :
            LET edited == ManualSubmitResult(balances, transactions, tx.id,
                                             type, amount, jar, now)
                deleted == DeleteTransactionResult(balances, transactions, tx.id)
                created == ManualSubmitResult(deleted.balances, deleted.transactions,
                                              NoId, type, amount, jar, now)
            IN  edited.balances = created.balances

\* the transferGroupIds the ledger carries
TransferGroupIds == {tx.transferGroupId : tx \in Range(transactions)} \ {NoId}

\* C4: every transferGroupId of the ledger is carried by exactly two
\* transactions, one expense and one income of the same amount
C4_TransferPairsIntact ==
    \A g \in TransferGroupIds :
        LET members == SelectSeq(transactions, LAMBDA tx : tx.transferGroupId = g)
        IN  /\ Len(members) = 2
            /\ \E i, j \in 1..2 :
                   /\ members[i].type = "expense"
                   /\ members[j].type = "income"
                   /\ members[i].amount = members[j].amount

\* the ids of the two transactions the transfer of group g created
TransferMemberIds(g) == {PlainId(g[2]), PlainId(g[2] + 1)}

\* C5: deleting a transaction of a transfer removes both transactions the
\* transfer created and reverses the balance effect of both
C5_DeleteHalfRemovesPair ==
    \A tx \in Range(transactions) :
        tx.transferGroupId # NoId =>
            LET r == DeleteTransactionResult(balances, transactions, tx.id)
                pair == SelectSeq(transactions,
                                  LAMBDA t : t.id \in TransferMemberIds(tx.transferGroupId))
            IN  /\ Ids(r.transactions) \cap TransferMemberIds(tx.transferGroupId) = {}
                /\ r.balances = ReverseAll(balances, pair)

\* the sum of the six jars
Total(bal) == SeqSum(SeqMap(LAMBDA jar : bal[jar], <<"NEC", "LTS", "EDU", "PLAY", "FFA", "GIVE">>))

\* a transfer request the preconditions of the specification accept
TransferAccepted(from, to, amount) ==
    /\ amount > 0
    /\ amount <= balances[from]
    /\ from # to

C7_TransferRejected ==
    [][\A from \in TransferJars, to \in TransferJars, amount \in AmountsOrZero :
          (~TransferAccepted(from, to, amount) /\ handleTransferSubmit(from, to, amount)) =>
              /\ UNCHANGED <<balances, transactions>>
              /\ toast' \in {"Balance error", "Same jar"}
    ]_vars

\* a transfer from a funded jar to itself has just been refused
C7_Witness ==
    /\ toast = "Same jar"
    /\ transactions # <<>>
    /\ \E jar \in TransferJars : balances[jar] >= 1 * Scale

C9_PaidAmountBounded ==
    [][/\ \A i \in 1..Len(loans') :
              /\ 0 <= loans'[i].paidAmount
              /\ loans'[i].paidAmount <= loans'[i].principal
       /\ \A i \in 1..Len(loans), j \in 1..Len(loans') :
              loans[i].id = loans'[j].id => loans'[j].paidAmount >= loans[i].paidAmount
    ]_vars

\* C10: a payment of more than the remaining principal plus the epsilon
\* changes neither the loans, nor the balances, nor the ledger
C10_OverpaymentRefused ==
    [][\A loan \in Range(loans), amount \in Amounts :
          (/\ amount > (loan.principal - loan.paidAmount) + Epsilon
           /\ handlePaymentSubmit(loan.id, amount)) =>
              UNCHANGED <<loans, balances, transactions>>
    ]_vars

\* a payment on a partly paid loan has just been refused
C10_Witness ==
    /\ lastAlert = "confirm_delete_msg"
    /\ \E i \in 1..Len(loans) :
           /\ loans[i].paidAmount > 0
           /\ loans[i].paidAmount < loans[i].principal

\* C11: an accepted payment of x on a loan puts one new transaction tagged
\* with the loan's id in front of the ledger, an expense for a BORROW loan and
\* an income for a LEND loan, applies its effect to the balances, adds x to the
\* loan's paidAmount, and leaves every earlier transaction where it was
C11_PaymentEffect ==
    [][\A loan \in Range(loans), amount \in Amounts :
          (/\ amount <= (loan.principal - loan.paidAmount) + Epsilon
           /\ handlePaymentSubmit(loan.id, amount)) =>
              LET payTx == transactions'[1]
              IN  /\ Len(transactions') = Len(transactions) + 1
                  /\ Tail(transactions') = transactions
                  /\ payTx.id \notin Ids(transactions)
                  /\ payTx.loanId = loan.id
                  /\ payTx.type = (IF loan.type = "BORROW" THEN "expense" ELSE "income")
                  /\ payTx.amount = amount
                  /\ payTx.jarType = loan.loanJar
                  /\ \A jar \in JarType :
                         balances'[jar] = balances[jar] + Contribution(payTx, jar)
                  /\ Len(loans') = Len(loans)
                  /\ \A i \in 1..Len(loans) :
                         loans'[i] = IF loans[i].id = loan.id
                                     THEN [loans[i] EXCEPT !.paidAmount = @ + amount]
                                     ELSE loans[i]
    ]_vars

\* a second payment on a loan has just been accepted, next to the first one
C11_Witness ==
    /\ toast = "Payment OK"
    /\ Len(transactions) = 2
    /\ transactions[1].loanId = transactions[2].loanId
    /\ transactions[1].loanId # NoId
    /\ \E i \in 1..Len(loans) :
           /\ loans[i].id = transactions[1].loanId
           /\ loans[i].paidAmount = transactions[1].amount + transactions[2].amount

\* handleDeleteLoan for each loan of the list in turn
RECURSIVE DeleteEveryLoan(_)
DeleteEveryLoan(st) ==
    IF st.loans = <<>> THEN st
    ELSE DeleteEveryLoan(DeleteLoanResult(st.balances, st.transactions, st.loans,
                                          Head(st.loans).id))

\* C12: where all that happened are loans and operations on them (payments,
\* loan edits, edits and deletes of payment rows), deleting the loans leaves no
\* loan, no transaction, and every jar at the balance it had before them
C12_LoanDeleteLeavesNoTrace ==
    LET r == DeleteEveryLoan([balances |-> balances, transactions |-> transactions,
                              loans |-> loans])
    IN  /\ r.loans = <<>>
        /\ r.transactions = <<>>
        /\ r.balances = ZeroBalances

\* C13: editing a loan moves every jar by the initiating effect of the new
\* fields minus the initiating effect of the old fields, replaces the loan in
\* place with its id and paidAmount kept, and leaves the other loans and the
\* ledger alone
C13_LoanEditEffect ==
    [][\A loan \in Range(loans) :
          \A type \in LoanTypes, principal \in Amounts, jar \in JarChoices :
              handleSaveLoan(loan.id, type, principal, jar) =>
                  LET new == Loan(loan.id, type, principal, loan.paidAmount, jar)
                  IN  /\ \A j \in JarType :
                             balances'[j] = balances[j] - LoanContribution(loan, j)
                                                        + LoanContribution(new, j)
                      /\ Len(loans') = Len(loans)
                      /\ \A i \in 1..Len(loans) :
                             loans'[i] = IF loans[i].id = loan.id THEN new ELSE loans[i]
                      /\ transactions' = transactions
    ]_vars

\* a loan taken as BORROW and partly paid back has been edited into a LEND
\* loan: its payment is an expense, and its paidAmount is the payment's amount
C13_Witness ==
    \E i \in 1..Len(loans) : \E k \in 1..Len(transactions) :
        /\ loans[i].type = "LEND"
        /\ transactions[k].loanId = loans[i].id
        /\ transactions[k].type = "expense"
        /\ loans[i].paidAmount = transactions[k].amount

\* C14: deleting an id that is in none of the lists (a second delete of the
\* same id included) leaves the balances, the ledger and the loans unchanged
C14_DeleteOfMissingIdIsNoOp ==
    [][\A id \in StaleIds :
          handleTripleDelete(id) => UNCHANGED <<balances, transactions, loans>>
    ]_vars

\* three handler calls have left everything empty and the balances at zero,
\* the last one a delete: one of the three was a delete of an id already gone
C14_Witness ==
    /\ now = ClockStep * 3
    /\ toast = "Removed"
    /\ transactions = <<>>
    /\ loans = <<>>
    /\ recurringTemplates = <<>>
    /\ balances = ZeroBalances
    /\ StaleIds # {}

\* C15: submitting the edit form for an id the ledger does not hold leaves the
\* balances and the ledger unchanged
C15_EditOfMissingIdIsNoOp ==
    [][\A id \in UsedIds \ Ids(transactions) :
          \A type \in TxTypes, amount \in Amounts, jar \in JarChoices :
              handleManualSubmit(id, type, amount, jar) =>
                  UNCHANGED <<balances, transactions>>
    ]_vars

\* nothing a create operation writes has changed
NoMutation ==
    UNCHANGED <<balances, transactions, loans, recurringTemplates, events, futureGroups>>

\* C16: a manual transaction, a loan, a loan payment, a recurring template, an
\* event entry or a future entry submitted with a non-positive amount changes
\* neither balances, nor transactions, nor loans, nor templates, nor groups
C16_NonPositiveAmountRejected ==
    [][/\ \A type \in TxTypes, jar \in JarChoices :
              handleManualSubmit(NoId, type, 0, jar) => NoMutation
       /\ \A type \in LoanTypes, jar \in JarChoices :
              handleSaveLoan(NoId, type, 0, jar) => NoMutation
       /\ \A loan \in Range(loans) :
              handlePaymentSubmit(loan.id, 0) => NoMutation
       /\ handleSaveRecurring(0) => NoMutation
       /\ \A ev \in Range(events), type \in TxTypes :
              handleEventEntrySubmit(ev.id, type, 0) => NoMutation
       /\ \A f \in Range(futureGroups), type \in TxTypes :
              handleFutureEntrySubmit(f.id, type, 0) => NoMutation
    ]_vars

\* C17: every transaction of the ledger has a positive amount
C17_LedgerAmountsPositive ==
    \A i \in 1..Len(transactions) : transactions[i].amount > 0

\* the jar balances and the ledger are as they were
LedgerUntouched == UNCHANGED <<balances, transactions>>

\* C18: creating an event or a future group, adding an entry to a group,
\* removing an entry from a group, deleting a group that was not committed,
\* creating a recurring template and deleting one all leave the jar balances
\* and the ledger unchanged
C18_StagingLeavesLedgerAlone ==
    [][/\ handleSaveEvent => LedgerUntouched
       /\ handleSaveFuture => LedgerUntouched
       /\ \A ev \in Range(events), type \in TxTypes, amount \in Amounts :
              handleEventEntrySubmit(ev.id, type, amount) => LedgerUntouched
       /\ \A f \in Range(futureGroups), type \in TxTypes, amount \in Amounts :
              handleFutureEntrySubmit(f.id, type, amount) => LedgerUntouched
       /\ \A ev \in Range(events) : \A t \in Range(ev.transactions) :
              handleDeleteEventTransaction(ev.id, t.id) => LedgerUntouched
       /\ \A f \in Range(futureGroups) : \A t \in Range(f.transactions) :
              handleDeleteFutureTransaction(f.id, t.id) => LedgerUntouched
       /\ \A id \in Ids(events) \cup Ids(futureGroups) :
              handleTripleDelete(id) => LedgerUntouched
       /\ \A amount \in Amounts : handleSaveRecurring(amount) => LedgerUntouched
       /\ \A tpl \in Range(recurringTemplates) :
              deleteRecurringTemplate(tpl.id) => LedgerUntouched
    ]_vars

\* an entry has just been added to an event while the ledger holds a
\* transaction and the jars hold money
C18_Witness ==
    /\ toast = "Added"
    /\ transactions # <<>>
    /\ balances["NEC"] > 0
    /\ \E i \in 1..Len(events) : Len(events[i].transactions) > 0

\* income entries minus expense entries
RECURSIVE Net(_)
Net(entries) ==
    IF entries = <<>> THEN 0
    ELSE (IF Head(entries).type = "income" THEN Head(entries).amount
          ELSE 0 - Head(entries).amount) + Net(Tail(entries))

\* C19: committing an event that holds entries to a jar (or AUTO) puts exactly
\* one transaction in front of the ledger, of amount |income - expense| of the
\* entries, of type income when income >= expense and expense otherwise, on
\* the target jar, and moves the balances by that transaction's effect only
C19_EventCommitEffect ==
    [][\A ev \in Range(events), jar \in JarChoices :
          (ev.transactions # <<>> /\ handlePushEventToHistory(ev, jar)) =>
              LET net == Net(ev.transactions)
                  mainTx == transactions'[1]
              IN  /\ Len(transactions') = Len(transactions) + 1
                  /\ Tail(transactions') = transactions
                  /\ mainTx.amount = (IF net >= 0 THEN net ELSE 0 - net)
                  /\ mainTx.type = (IF net >= 0 THEN "income" ELSE "expense")
                  /\ mainTx.jarType = jar
                  /\ \A j \in JarType :
                         balances'[j] = balances[j] + Contribution(mainTx, j)
    ]_vars

\* an event holding an income of 1 and an expense of 2 has just been committed
\* to the NEC jar
C19_Witness ==
    /\ toast = "Saved to History"
    /\ transactions # <<>>
    /\ transactions[1].id[1] = "ev_main_"
    /\ transactions[1].type = "expense"
    /\ transactions[1].amount = 1 * Scale
    /\ transactions[1].jarType = "NEC"
    /\ balances["NEC"] < 0

\* C20: committing a future group that holds N entries to a jar (or AUTO) puts
\* exactly N transactions in front of the ledger, one per entry with the
\* entry's type and amount and the target jar, each with an id of its own, and
\* moves every jar by the sum of their effects
C20_FutureCommitEffect ==
    [][\A f \in Range(futureGroups), jar \in JarChoices :
          (f.transactions # <<>> /\ handlePushFutureToHistory(f, jar)) =>
              LET N == Len(f.transactions)
                  added == SubSeq(transactions', 1, N)
              IN  /\ Len(transactions') = Len(transactions) + N
                  /\ SubSeq(transactions', N + 1, Len(transactions')) = transactions
                  /\ Cardinality(Ids(added)) = N
                  /\ Ids(added) \cap Ids(transactions) = {}
                  /\ \A i \in 1..N :
                         /\ added[N + 1 - i].type = f.transactions[i].type
                         /\ added[N + 1 - i].amount = f.transactions[i].amount
                         /\ added[N + 1 - i].jarType = jar
                  /\ \A j \in JarType :
                         balances'[j] = balances[j]
                             + SeqSum(SeqMap(LAMBDA tx : Contribution(tx, j), added))
    ]_vars

\* a future group holding an income and an expense has just been committed to
\* the NEC jar
C20_Witness ==
    /\ toast = "Plans Executed"
    /\ Len(transactions) >= 2
    /\ transactions[1].id[1] = "fut_real_"
    /\ transactions[2].id[1] = "fut_real_"
    /\ transactions[1].type # transactions[2].type
    /\ transactions[1].jarType = "NEC"
    /\ transactions[2].jarType = "NEC"

\* C21: a commit of an event or of a future group removes that group from its
\* list in the same step, and no group of either list has a committed
\* transaction of its own in the ledger
C21_CommittedGroupIsGone ==
    /\ [](/\ \A g \in Range(events) : EvMainId(g.id) \notin Ids(transactions)
          /\ \A g \in Range(futureGroups), tx \in Range(transactions) :
                 ~(tx.id[1] = "fut_real_" /\ tx.id[2] = g.id[2]))
    /\ [][/\ \A ev \in Range(events), jar \in JarChoices :
                 (ev.transactions # <<>> /\ handlePushEventToHistory(ev, jar)) =>
                     ev.id \notin Ids(events')
          /\ \A f \in Range(futureGroups), jar \in JarChoices :
                 (f.transactions # <<>> /\ handlePushFutureToHistory(f, jar)) =>
                     f.id \notin Ids(futureGroups')
       ]_vars

\* both groups of the start have been committed: the ledger holds the event's
\* net transaction and a transaction of the future group, and both lists are
\* empty
C21_Witness ==
    /\ events = <<>>
    /\ futureGroups = <<>>
    /\ \E tx \in Range(transactions) : tx.id[1] = "ev_main_"
    /\ \E tx \in Range(transactions) : tx.id[1] = "fut_real_"

\* C27: the net worth computed by stats (the six balances + outstanding lent -
\* outstanding debt) is the same before and after every save of a loan (create
\* or edit of principal, jar or type), every loan payment, every delete of a
\* loan and every jar-to-jar transfer
C27_LoanOperationsKeepNetWorth ==
    [][LET before == stats(balances, loans).net
           after == stats(balances', loans').net
       IN  /\ \A id \in {NoId} \cup Ids(loans), type \in LoanTypes,
                 principal \in Amounts, jar \in JarChoices :
                   handleSaveLoan(id, type, principal, jar) => after = before
           /\ \A id \in Ids(loans), amount \in Amounts :
                   handlePaymentSubmit(id, amount) => after = before
           /\ \A id \in Ids(loans) :
                   handleTripleDelete(id) => after = before
           /\ \A from \in TransferJars, to \in TransferJars, amount \in Amounts :
                   handleTransferSubmit(from, to, amount) => after = before
    ]_vars

\* C28: in every state, the paidAmount of each loan is the sum of the amounts
\* of the ledger transactions that carry the loan's id
C28_PaidAmountEqualsPayments ==
    \A loan \in Range(loans) :
        loan.paidAmount =
            SeqSum(SeqMap(LAMBDA tx : tx.amount,
                          SelectSeq(transactions, LAMBDA tx : tx.loanId = loan.id)))

\* C26: when the provider fails the parse call, no transaction is added and no
\* balance changes; a failure with status 429 shows the quota message, and a
\* failure of another kind or an empty result shows another message
C26_QuotaErrorShowsQuotaMessage ==
    [][\A response \in ProviderResponses :
          (/\ IF response.ok THEN response.text = Null ELSE TRUE
           /\ handleProcessInputResume(analyzeTransactionText(response))) =>
              /\ UNCHANGED <<balances, transactions>>
              /\ (IF response.ok THEN FALSE ELSE response.status = 429)
                     <=> (toast' = "ai_quota_exceeded")
    ]_vars

\* C24: the write-back is a trailing debounce.  Every step that changes the
\* state blob of a signed-in, loaded user replaces the pending timer by one
\* that is due SaveDelay after that step; the timer changes in no other way
\* than being replaced or cleared, so at most one is pending and it holds the
\* state after the last change; a write is issued only by a pending timer that
\* is due, writes the in-memory state of that moment to the document of the
\* signed-in user, and leaves no timer pending
C24_TrailingDebounce ==
    /\ [](timeoutId # Null =>
              /\ timeoutId.data = Snapshot
              /\ timeoutId.user = currentUser
              /\ isCloudLoaded)
    /\ [][/\ (Snapshot' # Snapshot /\ currentUser' # NoUser /\ isCloudLoaded') =>
                 timeoutId' = [due |-> now + SaveDelay, user |-> currentUser',
                               data |-> Snapshot']
          /\ timeoutId' # timeoutId =>
                 \/ timeoutId' = Null
                 \/ timeoutId'.due = now + SaveDelay
          /\ lastSetDoc' # lastSetDoc =>
                 /\ timeoutId # Null
                 /\ now >= timeoutId.due
                 /\ timeoutId' = Null
                 /\ lastSetDoc' = [user |-> currentUser, at |-> now, data |-> Snapshot]
                 /\ users_data' = [users_data EXCEPT ![currentUser] =
                                      Doc(SnapshotFields, Snapshot)]
       ]_vars

\* A is loaded with the stored ledger of one transaction, adds two more less
\* than SaveDelay apart, and one write of the three transactions is issued
\* SaveDelay after the second
C24_Witness ==
    /\ lastSetDoc # Null
    /\ lastSetDoc.user = "A"
    /\ Len(lastSetDoc.data.transactions) = 3
    /\ lastSetDoc.data.transactions[1].id = PlainId(lastSetDoc.at - SaveDelay)
    /\ lastSetDoc.data.transactions[2].id = PlainId(lastSetDoc.at - SaveDelay - ClockStep)
    /\ users_data["A"].data = Snapshot
    /\ timeoutId = Null

\* C23: while a user is signed in and the load of the snapshot has not
\* completed (isCloudLoaded is false before and after the step), no step
\* changes the in-memory ledger
C23_NoMutationBeforeLoad ==
    [][(currentUser # NoUser /\ ~isCloudLoaded /\ ~isCloudLoaded') =>
           UNCHANGED <<balances, transactions, loans, recurringTemplates, events,
                       futureGroups>>
    ]_vars

\* C25: a load is started only for the verified user who is signed in; a write
\* is issued only to the document of the verified user who is signed in, and
\* only after a load of that user's session has completed; while nobody is
\* signed in and the auth form is shown, no timer is pending and no step
\* changes the in-memory ledger
C25_StoreOnlyForVerifiedLoadedUser ==
    /\ []((currentUser = NoUser /\ isAuthModalOpen) => timeoutId = Null)
    /\ [][/\ \A load \in pendingLoads' \ pendingLoads :
                 /\ load.user = currentUser'
                 /\ emailVerified(load.user)
          /\ lastSetDoc' # lastSetDoc =>
                 /\ currentUser # NoUser
                 /\ emailVerified(currentUser)
                 /\ lastSetDoc'.user = currentUser
                 /\ session.loaded
          /\ (currentUser = NoUser /\ isAuthModalOpen /\ currentUser' = NoUser) =>
                 UNCHANGED <<balances, transactions, loans, recurringTemplates, events,
                             futureGroups>>
       ]_vars

\* C29: when a user has signed in after another user, has changed nothing in
\* the session, and the load of the session completes with the document, the
\* in-memory ledger is that user's stored snapshot, with the default value for
\* every field the document lacks and the default state when there is no
\* document
C29_LoadedStateIsOwnSnapshot ==
    [][\A load \in pendingLoads :
          (/\ session.previous \notin {NoUser, currentUser}
           /\ load.user = currentUser
           /\ load.session = session.n
           /\ ~session.mutated
           /\ loadFromCloudResume(load, "ok")) =>
              Snapshot' = LoadedInto(DefaultSnapshot, users_data[currentUser])
    ]_vars

\* C30: no write is issued in a session whose load failed and in which the
\* user has changed nothing
C30_FailedLoadWritesNothing ==
    [][lastSetDoc' # lastSetDoc => ~(session.failed /\ ~session.mutated)]_vars

\* the exact value of a binary64 number in units of 2^-FixedBits, for
\* numbers that are whole multiples of that unit
FixedBits == SignificandBits + 7

F64Fixed(x) == BigShl(x.m, x.e + FixedBits)

\* the exact (unrounded) sum of the magnitudes of the six jar balances
JarMagnitudeSum64 ==
    BigAdd(F64Fixed(balances["NEC"]),
    BigAdd(F64Fixed(balances["LTS"]),
    BigAdd(F64Fixed(balances["EDU"]),
    BigAdd(F64Fixed(balances["PLAY"]),
    BigAdd(F64Fixed(balances["FFA"]), F64Fixed(balances["GIVE"]))))))

\* an AUTO transaction was applied to balances that were all zero, so the
\* balances are the six deltas; each has the sign of the transaction
AutoApplied64 ==
    /\ engine.pc = "applied"
    /\ engine.b = ZeroBalances64
    /\ engine.t.jarType = AUTO

DeltasHaveSign64 ==
    \A j \in JarType :
        balances[j].s = (IF engine.t.type = "income" THEN 1 ELSE -1)

\* the sum of the magnitudes of the six jar balances as the program would
\* compute it, adding binary64 numbers in the order of the jars
JarMagnitudeSumRounded64 ==
    LET mag(j) == F64(1, balances[j].m, balances[j].e)
    IN  F64Add(F64Add(F64Add(F64Add(F64Add(mag("NEC"), mag("LTS")), mag("EDU")),
                             mag("PLAY")), mag("FFA")), mag("GIVE"))

F64Eq(x, y) ==
    /\ F64Fixed(x) = F64Fixed(y)
    /\ x.m = <<>> \/ x.s = y.s

\* C2 on binary64 numbers: applying t with updateBalances(null, t) and then
\* reversing it with updateBalances(t, null) returns every jar balance to
\* its value in b
C2_ApplyThenReverseRestores64 ==
    engine.pc = "reversed" =>
        \A j \in JarType : F64Eq(balances[j], engine.b[j])

====
